---------------------------- MODULE Spec2Model ----------------------------
(***************************************************************************)
(* State-machine model of the BS.1770 loudness meter of                    *)
(* src/src/audio_processor/src/lib.rs: Biquad, KWeightFilter, RingBuffer   *)
(* and the public LufsMeter (new, process_block, the getters, reset_peak,  *)
(* reset_all).                                                             *)
(*                                                                         *)
(* Numbers.  The program computes in IEEE binary64 (f64) and binary32      *)
(* (f32).  The model keeps the structure of a binary floating-point        *)
(* format -- every result is the exact result rounded to nearest, ties to  *)
(* even, at a fixed number of significant bits -- and scales the format    *)
(* down: a value is an integer count of grid units, ONE grid units make    *)
(* 1.0, the grid unit plays the part of the smallest subnormal, and the    *)
(* significand has MantBits (f64) or F32MantBits (f32) bits instead of 53  *)
(* and 24.  NaN is a value of its own that every operation propagates and  *)
(* every comparison rejects; Inf and -Inf are values of their own beyond   *)
(* every finite one, with the IEEE rules (Inf - Inf and 0 * Inf are NaN).  *)
(***************************************************************************)
EXTENDS Integers, Sequences, FiniteSets, TLC

VARIABLES
    sample_rate,   \* the argument LufsMeter::new was called with
    meter,         \* the LufsMeter object (a record of its fields)
    panicked,      \* TRUE once an operation has panicked (the object is lost)
    op,            \* the operation performed last
    ret,           \* what that operation returned
    hist,          \* bookkeeping about the calls made so far (not program state)
    rb,            \* a RingBuffer on its own (specification SpecRing)
    pushed,        \* the values pushed into rb so far, oldest first
    node_server,   \* the launcher's ProcessState of the Node server
    processes,     \* the child processes spawned so far, by pid: their state
    threads        \* the launcher's background threads not yet finished

vars == <<sample_rate, meter, panicked, op, ret, hist, rb, pushed,
          node_server, processes, threads>>

\* the variables of the launcher
launcher == <<node_server, processes, threads>>

\* Option::None in ProcessState.child
None == 0

\* AppState::new(): no child, the default status, nothing spawned
LauncherNew ==
    /\ node_server = [child |-> None, status |-> ""]
    /\ processes = <<>>
    /\ threads = [spawning |-> 0, monitoring |-> 0]

-----------------------------------------------------------------------------
(* Bounds of the model *)

\* significand bits of the scaled-down f64
MantBits == 12
\* significand bits of the scaled-down f32
F32MantBits == 3
\* longest slice handed to process_block
MaxBlock == 2
\* samples fed to a meter between two reset_all calls
MaxFed == MaxBlock + 2
\* process_block calls on a meter between two reset_all calls
MaxCalls == MaxBlock + 1
\* largest capacity of the stand-alone RingBuffer
MaxRingCap == 3
\* pushes into the stand-alone RingBuffer
MaxPush == 6
\* process_block calls on a meter of SpecCut
CutDepth == 2
\* samples at the head of a stream of SpecStream that may differ from 0
LoudPrefix == 2
\* bits of the scaled-down u32 of the sample counter
CountBits == 3
\* terms summed of the power series of sin, cos and exp
SeriesTerms == 13
\* highest sample rate of SpecCoef, in kHz
MaxRateKHz == 96
\* samples of the tone fed to the meter of SpecTone
MaxToneSamples == 1500
\* samples handed to the filter of SpecBiquad
MaxProcess == 3

\* grid units per 1.0
ONE == 2^8

-----------------------------------------------------------------------------
(* Floating-point arithmetic *)

NaN == -(2^30)

IsNaN(x) == x = NaN

Inf == 2^29

IsInf(x) == x = Inf \/ x = -Inf

IsFinite(x) == ~IsNaN(x) /\ ~IsInf(x)

Abs(x) == IF x < 0 THEN -x ELSE x

Min(a, b) == IF a <= b THEN a ELSE b

Max(a, b) == IF a >= b THEN a ELSE b

\* number of binary digits of n >= 0 (0 for 0)
RECURSIVE BitLen(_)
BitLen(n) == IF n = 0 THEN 0 ELSE 1 + BitLen(n \div 2)

\* n / d (d > 0) rounded to the nearest integer, ties to the even one
RoundHalfEven(n, d) ==
    LET q == n \div d
        r == n % d
    IN  IF 2 * r > d \/ (2 * r = d /\ q % 2 = 1) THEN q + 1 ELSE q

\* the rational n / d (d > 0, in grid units) rounded to a float of `bits`
\* significant bits: the unit in the last place follows the magnitude and is
\* never below one grid unit
RoundRat(n, d, bits) ==
    LET mag == Abs(n) \div d
        e   == BitLen(mag)
        ulp == IF e > bits THEN 2^(e - bits) ELSE 1
        r   == ulp * RoundHalfEven(n, d * ulp)
    IN  r

\* an exact integer result rounded into the f64 format
Rnd(x) == RoundRat(x, 1, MantBits)

FAdd(a, b) ==
    IF IsNaN(a) \/ IsNaN(b) THEN NaN
    ELSE IF IsInf(a) THEN (IF b = -a THEN NaN ELSE a)
    ELSE IF IsInf(b) THEN b
    ELSE Rnd(a + b)

FNeg(a) == IF IsNaN(a) THEN NaN ELSE -a

FSub(a, b) ==
    IF IsNaN(a) \/ IsNaN(b) THEN NaN
    ELSE IF IsInf(a) \/ IsInf(b) THEN FAdd(a, FNeg(b))
    ELSE Rnd(a - b)

FMul(a, b) ==
    IF IsNaN(a) \/ IsNaN(b) THEN NaN
    ELSE IF IsInf(a) \/ IsInf(b)
         THEN (IF a = 0 \/ b = 0 THEN NaN
               ELSE IF (a > 0) = (b > 0) THEN Inf ELSE -Inf)
    ELSE RoundRat(a * b, ONE, MantBits)

\* a / n for a count n >= 1 converted to f64 (exact)
FDivCount(a, n) ==
    IF IsNaN(a) THEN NaN ELSE IF IsInf(a) THEN a ELSE RoundRat(a, n, MantBits)

\* k * x + c for finite k > 0 and c
FAffine(k, x, c) ==
    IF IsNaN(x) THEN NaN ELSE IF IsInf(x) THEN x ELSE k * x + c

FLt(a, b) == ~IsNaN(a) /\ ~IsNaN(b) /\ a < b

FGt(a, b) == ~IsNaN(a) /\ ~IsNaN(b) /\ a > b

\* (mutant) the magnitude not taken
FAbsPlain(a) == a

FAbs(a) == IF IsNaN(a) THEN NaN ELSE Abs(a)

\* `x as f32` of a non-negative integer count
ToF32(n) == RoundRat(n, 1, F32MantBits)

-----------------------------------------------------------------------------
(* RingBuffer *)

RepeatZero(n) == [i \in 1..n |-> 0]

\* RingBuffer::new
RingBufferNew(capacity) ==
    [buf |-> RepeatZero(capacity), head |-> 0, len |-> 0, sum |-> 0, compensation |-> 0]

\* the index expressions buf[head] of push are out of bounds (a panic)
PushPanics(b) == b.head >= Len(b.buf)

\* the branch of push taken when the buffer is full: the Kahan-compensated
\* subtraction of the value about to be overwritten
PushEvict(b) ==
    LET old == b.buf[b.head + 1]
        y   == FSub(FNeg(old), b.compensation)
        t   == FAdd(b.sum, y)
    IN  [b EXCEPT !.compensation = FSub(FSub(t, b.sum), y), !.sum = t]

\* (mutant) the cursor advanced without wrapping
PushStoreNoWrap(b, value) ==
    LET y == FSub(value, b.compensation)
        t == FAdd(b.sum, y)
    IN  [b EXCEPT !.buf[b.head + 1] = value,
                  !.head = b.head + 1,
                  !.compensation = FSub(FSub(t, b.sum), y),
                  !.sum = t]

\* the store of the new value and the Kahan-compensated addition
PushStore(b, value) ==
    LET y == FSub(value, b.compensation)
        t == FAdd(b.sum, y)
    IN  [b EXCEPT !.buf[b.head + 1] = value,
                  !.head = (b.head + 1) % Len(b.buf),
                  !.compensation = FSub(FSub(t, b.sum), y),
                  !.sum = t]

\* RingBuffer::push (for a buffer on which it does not panic)
Push(b, value) ==
    IF b.len = Len(b.buf)
    THEN PushStore(PushEvict(b), value)
    ELSE PushStore([b EXCEPT !.len = b.len + 1], value)

\* (mutant) the sum divided by the capacity
MeanOverCapacity(b) ==
    IF b.len = 0 THEN 0 ELSE FDivCount(FAdd(b.sum, b.compensation), Len(b.buf))

\* RingBuffer::mean
Mean(b) ==
    IF b.len = 0 THEN 0 ELSE FDivCount(FAdd(b.sum, b.compensation), b.len)

-----------------------------------------------------------------------------
(* Biquad and KWeightFilter *)

\* Biquad::new
BiquadNew(b0, b1, b2, a1, a2) ==
    [b0 |-> b0, b1 |-> b1, b2 |-> b2, a1 |-> a1, a2 |-> a2, z1 |-> 0, z2 |-> 0]

\* the output sample of Biquad::process
BiquadOut(q, x) == FAdd(FMul(q.b0, x), q.z1)

\* (mutant) a filter that flushes delay lines that are NaN or infinite
BiquadStepFlush(q, x) ==
    LET y  == BiquadOut(q, x)
        z1 == FAdd(FSub(FMul(q.b1, x), FMul(q.a1, y)), q.z2)
        z2 == FSub(FMul(q.b2, x), FMul(q.a2, y))
    IN  [q EXCEPT !.z1 = IF IsFinite(z1) THEN z1 ELSE 0,
                  !.z2 = IF IsFinite(z2) THEN z2 ELSE 0]

\* Biquad::process: the filter after the sample
BiquadStep(q, x) ==
    LET y == BiquadOut(q, x)
    IN  [q EXCEPT !.z1 = FAdd(FSub(FMul(q.b1, x), FMul(q.a1, y)), q.z2),
                  !.z2 = FSub(FMul(q.b2, x), FMul(q.a2, y))]

\* The sample rates of the model, in Hz.  Their momentary / short-term /
\* output-interval lengths are 0/3/0, 2/18/0, 5/36/1 and 12/90/2 samples.
SampleRates == {1, 6, 12, 30}

\* KWeightFilter::new: the coefficients b0, b1, b2, a1, a2 of both stages.
\* tan and powf are not computable here; the rows are the source's formulas
\* evaluated at each sample rate of the model and rounded to the grid.
Stage1Coef(fs) ==
    CASE fs = 1  -> <<415, -905, 497, -570, 321>>
      [] fs = 6  -> <<306, 102, 59, 151, 60>>
      [] fs = 12 -> <<351, -304, 108, -163, 63>>
      [] fs = 30 -> <<382, -588, 240, -365, 143>>

Stage2Coef(fs) ==
    CASE fs = 1  -> <<121, -242, 121, -193, 36>>
      [] fs = 6  -> <<27, -55, 27, 177, 31>>
      [] fs = 12 -> <<97, -194, 97, -118, 14>>
      [] fs = 30 -> <<56, -112, 56, 34, 1>>

KWeightFilterNew(fs) ==
    LET c1 == Stage1Coef(fs)
        c2 == Stage2Coef(fs)
    IN  [stage1 |-> BiquadNew(c1[1], c1[2], c1[3], c1[4], c1[5]),
         stage2 |-> BiquadNew(c2[1], c2[2], c2[3], c2[4], c2[5])]

\* (mutant) the stages chained the other way round
KWeightOutStage2First(f, x) == BiquadOut(f.stage1, BiquadOut(f.stage2, x))

\* KWeightFilter::process: the weighted sample
KWeightOut(f, x) == BiquadOut(f.stage2, BiquadOut(f.stage1, x))

\* KWeightFilter::process: the filter after the sample
KWeightStep(f, x) ==
    [f EXCEPT !.stage1 = BiquadStep(f.stage1, x),
              !.stage2 = BiquadStep(f.stage2, BiquadOut(f.stage1, x))]

-----------------------------------------------------------------------------
(* KWeightFilter::new at audio rates, in fixed point: a number is an integer *)
(* count of millionths                                                       *)

MICRO == 10^6

\* k further decimal digits of the quotient q, remainder r, of a division by d
RECURSIVE DivDigits(_, _, _, _)
DivDigits(q, r, d, k) ==
    IF k = 0 THEN q
    ELSE DivDigits(10 * q + (10 * r) \div d, (10 * r) % d, d, k - 1)

\* n / d in millionths (truncated)
SDiv(n, d) ==
    LET sign == IF (n < 0) # (d < 0) THEN -1 ELSE 1
    IN  sign * DivDigits(Abs(n) \div Abs(d), Abs(n) % Abs(d), Abs(d), 6)

\* a * b of two numbers in millionths (truncated)
SMul(a, b) ==
    LET sign == IF (a < 0) # (b < 0) THEN -1 ELSE 1
        ah == Abs(a) \div 1000
        al == Abs(a) % 1000
        bh == Abs(b) \div 1000
        bl == Abs(b) % 1000
    IN  sign * (ah * bh + (ah * bl + al * bh) \div 1000 + (al * bl) \div MICRO)

\* std::f64::consts::PI and ln 10, in millionths
PI == 3141593
LN10 == 2302585

\* the power series of sin x and cos x summed from term k on
RECURSIVE SinCos(_, _, _, _, _, _)
SinCos(sn, ts, cs, tc, x2, k) ==
    IF k > SeriesTerms THEN <<sn, cs>>
    ELSE LET ts1 == (-SMul(ts, x2)) \div ((2 * k) * (2 * k + 1))
             tc1 == (-SMul(tc, x2)) \div ((2 * k - 1) * (2 * k))
         IN  SinCos(sn + ts1, ts1, cs + tc1, tc1, x2, k + 1)

\* f64::tan for |x| < pi / 2
Tan(x) ==
    LET sc == SinCos(x, x, MICRO, MICRO, SMul(x, x), 1)
    IN  SDiv(sc[1], sc[2])

\* the power series of exp y summed from term k on
RECURSIVE ExpSeries(_, _, _, _)
ExpSeries(e, t, y, k) ==
    IF k > SeriesTerms THEN e
    ELSE LET t1 == SMul(t, y) \div k
         IN  ExpSeries(e + t1, t1, y, k + 1)

\* 10_f64.powf(y)
Pow10(y) == ExpSeries(MICRO, MICRO, SMul(LN10, y), 1)

\* the parameters of the two stages: frequencies in mHz, the rest in millionths
f0_1 == 1681974
g_db == 3999844
q1 == 707175
f0_2 == 38135
q2 == 500327

\* PI * f0 / sample_rate for f0 in mHz and sample_rate in Hz
Warp(f0, fs) == SMul(PI, SDiv(f0, fs * 1000))

\* (mutant) the numerator's middle term Vb * K in place of Vb * K / Q
Stage1MicroPlainK(fs) ==
    LET k1   == Tan(Warp(f0_1, fs))
        vh   == Pow10(g_db \div 20)
        vb   == Pow10(g_db \div 40)
        k1_over_q1 == SDiv(k1, q1)
        kk   == SMul(k1, k1)
        a0_1 == MICRO + k1_over_q1 + kk
    IN  <<SDiv(vh + SMul(vb, k1) + kk, a0_1),
          SDiv(2 * (kk - vh), a0_1),
          SDiv(vh - SMul(vb, k1) + kk, a0_1),
          SDiv(2 * (kk - MICRO), a0_1),
          SDiv(MICRO - k1_over_q1 + kk, a0_1)>>

\* KWeightFilter::new, stage 1: b0, b1, b2, a1, a2 in millionths
Stage1Micro(fs) ==
    LET k1   == Tan(Warp(f0_1, fs))
        vh   == Pow10(g_db \div 20)
        vb   == Pow10(g_db \div 40)
        k1_over_q1 == SDiv(k1, q1)
        kk   == SMul(k1, k1)
        a0_1 == MICRO + k1_over_q1 + kk
    IN  <<SDiv(vh + SMul(vb, k1_over_q1) + kk, a0_1),
          SDiv(2 * (kk - vh), a0_1),
          SDiv(vh - SMul(vb, k1_over_q1) + kk, a0_1),
          SDiv(2 * (kk - MICRO), a0_1),
          SDiv(MICRO - k1_over_q1 + kk, a0_1)>>

\* KWeightFilter::new, stage 2: b0, b1, b2, a1, a2 in millionths
Stage2Micro(fs) ==
    LET k2   == Tan(Warp(f0_2, fs))
        k2_over_q2 == SDiv(k2, q2)
        kk   == SMul(k2, k2)
        a0_2 == MICRO + k2_over_q2 + kk
    IN  <<SDiv(MICRO, a0_2),
          SDiv(-2 * MICRO, a0_2),
          SDiv(MICRO, a0_2),
          SDiv(2 * (kk - MICRO), a0_2),
          SDiv(MICRO - k2_over_q2 + kk, a0_2)>>

\* KWeightFilter::new: the filter with its coefficients in millionths
KWeightFilterMicro(fs) ==
    LET c1 == Stage1Micro(fs)
        c2 == Stage2Micro(fs)
    IN  [stage1 |-> BiquadNew(c1[1], c1[2], c1[3], c1[4], c1[5]),
         stage2 |-> BiquadNew(c2[1], c2[2], c2[3], c2[4], c2[5])]

-----------------------------------------------------------------------------
(* power_to_lufs *)

\* loudness and level values are held in thousandths of a LU / dB
LUFS_OFFSET == -691
LUFS_FLOOR == -144000
\* the threshold 1.0e-10 on the grid: the smallest grid value not below it
POWER_FLOOR == 1

\* 1000 * log10(n) for n in 10..99
Log10Table ==
    <<1000, 1041, 1079, 1114, 1146, 1176, 1204, 1230, 1255, 1279,
      1301, 1322, 1342, 1362, 1380, 1398, 1415, 1431, 1447, 1462,
      1477, 1491, 1505, 1519, 1531, 1544, 1556, 1568, 1580, 1591,
      1602, 1613, 1623, 1633, 1643, 1653, 1663, 1672, 1681, 1690,
      1699, 1708, 1716, 1724, 1732, 1740, 1748, 1756, 1763, 1771,
      1778, 1785, 1792, 1799, 1806, 1813, 1820, 1826, 1833, 1839,
      1845, 1851, 1857, 1863, 1869, 1875, 1881, 1886, 1892, 1898,
      1903, 1908, 1914, 1919, 1924, 1929, 1934, 1940, 1944, 1949,
      1954, 1959, 1964, 1968, 1973, 1978, 1982, 1987, 1991, 1996>>

\* 1000 * log10(n) of an integer n >= 1, from its two leading decimal digits
RECURSIVE Log10Milli(_)
Log10Milli(n) ==
    IF n >= 100 THEN 1000 + Log10Milli(n \div 10)
    ELSE IF n >= 10 THEN Log10Table[n - 9]
    ELSE Log10Table[10 * n - 9] - 1000

\* 1000 * log10 of the value of x > 0 grid units
FLog10(x) ==
    IF IsNaN(x) \/ x < 0 THEN NaN
    ELSE IF x = 0 THEN -Inf
    ELSE IF x = Inf THEN Inf
    ELSE Log10Milli(x) - Log10Milli(ONE)

\* (mutant) the conversion without the silence floor
PowerToLufsNoFloor(mean_square) == FAffine(10, FLog10(mean_square), LUFS_OFFSET)

\* power_to_lufs
PowerToLufs(mean_square) ==
    IF FLt(mean_square, POWER_FLOOR) THEN LUFS_FLOOR
    ELSE FAffine(10, FLog10(mean_square), LUFS_OFFSET)

-----------------------------------------------------------------------------
(* LufsMeter *)

\* x.round() for the rational n / d >= 0: half away from zero
RoundHalfAway(n, d) == (2 * n + d) \div (2 * d)

\* the window and interval lengths LufsMeter::new derives from the rate
MomentarySamples(fs) == RoundHalfAway(fs * 4, 10)

ShortTermSamples(fs) == RoundHalfAway(fs * 3, 1)

\* (mutant) the interval truncated, not rounded
OutputIntervalTruncated(fs) == (fs * 5) \div 100

OutputInterval(fs) == RoundHalfAway(fs * 5, 100)

\* LufsMeter::new
LufsMeterNew(fs) ==
    [filter_l |-> KWeightFilterNew(fs),
     filter_r |-> KWeightFilterNew(fs),
     moment_l |-> RingBufferNew(MomentarySamples(fs)),
     moment_r |-> RingBufferNew(MomentarySamples(fs)),
     short_l |-> RingBufferNew(ShortTermSamples(fs)),
     short_r |-> RingBufferNew(ShortTermSamples(fs)),
     peak_l |-> 0,
     peak_r |-> 0,
     sample_count |-> 0,
     output_interval |-> OutputInterval(fs),
     cached_momentary |-> LUFS_FLOOR,
     cached_short_term |-> LUFS_FLOOR]

\* (mutant) the peak follows the last sample
PeakAfterLast(peak, x) == FAbs(x)

\* the peak after one sample: replaced only by a strictly larger magnitude
PeakAfter(peak, x) == IF FGt(FAbs(x), peak) THEN FAbs(x) ELSE peak

\* (mutant) the left peak following both channels
ProcessSampleSharedPeak(m, l, r) ==
    LET kl   == KWeightOut(m.filter_l, l)
        kr   == KWeightOut(m.filter_r, r)
        sq_l == FMul(kl, kl)
        sq_r == FMul(kr, kr)
    IN  [m EXCEPT !.filter_l = KWeightStep(m.filter_l, l),
                  !.filter_r = KWeightStep(m.filter_r, r),
                  !.moment_l = Push(m.moment_l, sq_l),
                  !.moment_r = Push(m.moment_r, sq_r),
                  !.short_l = Push(m.short_l, sq_l),
                  !.short_r = Push(m.short_r, sq_r),
                  !.peak_l = PeakAfter(PeakAfter(m.peak_l, l), r),
                  !.peak_r = PeakAfter(m.peak_r, r)]

\* (mutant) the short-term windows take the squared raw samples
ProcessSampleRawShort(m, l, r) ==
    LET kl   == KWeightOut(m.filter_l, l)
        kr   == KWeightOut(m.filter_r, r)
        sq_l == FMul(kl, kl)
        sq_r == FMul(kr, kr)
    IN  [m EXCEPT !.filter_l = KWeightStep(m.filter_l, l),
                  !.filter_r = KWeightStep(m.filter_r, r),
                  !.moment_l = Push(m.moment_l, sq_l),
                  !.moment_r = Push(m.moment_r, sq_r),
                  !.short_l = Push(m.short_l, FMul(l, l)),
                  !.short_r = Push(m.short_r, FMul(r, r)),
                  !.peak_l = PeakAfter(m.peak_l, l),
                  !.peak_r = PeakAfter(m.peak_r, r)]

\* one iteration of the loop of process_block
ProcessSample(m, l, r) ==
    LET kl   == KWeightOut(m.filter_l, l)
        kr   == KWeightOut(m.filter_r, r)
        sq_l == FMul(kl, kl)
        sq_r == FMul(kr, kr)
    IN  [m EXCEPT !.filter_l = KWeightStep(m.filter_l, l),
                  !.filter_r = KWeightStep(m.filter_r, r),
                  !.moment_l = Push(m.moment_l, sq_l),
                  !.moment_r = Push(m.moment_r, sq_r),
                  !.short_l = Push(m.short_l, sq_l),
                  !.short_r = Push(m.short_r, sq_r),
                  !.peak_l = PeakAfter(m.peak_l, l),
                  !.peak_r = PeakAfter(m.peak_r, r)]

\* the number of samples process_block takes from the two slices
BlockLen(left, right) == Min(Len(left), Len(right))

\* the loop of process_block over samples i..n
RECURSIVE ProcessSamples(_, _, _, _, _)
ProcessSamples(m, left, right, i, n) ==
    IF i > n THEN m
    ELSE ProcessSamples(ProcessSample(m, left[i], right[i]), left, right, i + 1, n)

\* the loop panics at its first push when a window has no slot
BlockPanics(m, left, right) ==
    /\ BlockLen(left, right) >= 1
    /\ \/ PushPanics(m.moment_l) \/ PushPanics(m.moment_r)
       \/ PushPanics(m.short_l) \/ PushPanics(m.short_r)

\* `n as u32`: the low bits of a length
AsU32(n) == n % 2^CountBits

\* the addition sample_count += n as u32 exceeds the u32 range: a panic where
\* overflow checks are compiled in, a wrap-around where they are not
CountOverflows(m, left, right) ==
    m.sample_count + AsU32(BlockLen(left, right)) >= 2^CountBits

\* (mutant) the counter advanced by the length of the left slice
CountAfterLeftLen(m, left, right) == (m.sample_count + AsU32(Len(left))) % 2^CountBits

\* the sample counter after the loop (wrapping)
CountAfter(m, left, right) ==
    (m.sample_count + AsU32(BlockLen(left, right))) % 2^CountBits

\* (mutant) the interval test with > for >=
IntervalReachedStrict(count, interval) == count > interval

\* whether process_block publishes new loudness values
IntervalReached(count, interval) == count >= interval

\* the two window powers: the mean of the two channels' mean squares
MomentaryPower(m) == FMul(FAdd(Mean(m.moment_l), Mean(m.moment_r)), ONE \div 2)

ShortTermPower(m) == FMul(FAdd(Mean(m.short_l), Mean(m.short_r)), ONE \div 2)

\* the update of the cached loudness values and of the counter
Publish(m) ==
    [m EXCEPT !.sample_count = 0,
              !.cached_momentary = PowerToLufs(MomentaryPower(m)),
              !.cached_short_term = PowerToLufs(ShortTermPower(m))]

\* (mutant) every block filtered from cleared delay lines
BlockMeterFreshFilters(m, left, right) ==
    LET cleared(f) == [f EXCEPT !.stage1.z1 = 0, !.stage1.z2 = 0,
                                !.stage2.z1 = 0, !.stage2.z2 = 0]
        m0 == [m EXCEPT !.filter_l = cleared(m.filter_l),
                        !.filter_r = cleared(m.filter_r)]
        m1 == ProcessSamples(m0, left, right, 1, BlockLen(left, right))
        c  == CountAfter(m, left, right)
    IN  IF IntervalReached(c, m.output_interval)
        THEN Publish(m1)
        ELSE [m1 EXCEPT !.sample_count = c]

\* (mutant) the counter left running at an update
BlockMeterNoRestart(m, left, right) ==
    LET m1 == ProcessSamples(m, left, right, 1, BlockLen(left, right))
        c  == CountAfter(m, left, right)
    IN  IF IntervalReached(c, m.output_interval)
        THEN [Publish(m1) EXCEPT !.sample_count = c]
        ELSE [m1 EXCEPT !.sample_count = c]

\* (mutant) the loudness values recomputed on every call
BlockMeterAlwaysPublish(m, left, right) ==
    LET m1 == ProcessSamples(m, left, right, 1, BlockLen(left, right))
        c  == CountAfter(m, left, right)
    IN  IF IntervalReached(c, m.output_interval)
        THEN Publish(m1)
        ELSE [Publish(m1) EXCEPT !.sample_count = c]

\* process_block: the meter after the call, and the value returned
BlockMeter(m, left, right) ==
    LET m1 == ProcessSamples(m, left, right, 1, BlockLen(left, right))
        c  == CountAfter(m, left, right)
    IN  IF IntervalReached(c, m.output_interval)
        THEN Publish(m1)
        ELSE [m1 EXCEPT !.sample_count = c]

BlockReturn(m, left, right) ==
    IntervalReached(CountAfter(m, left, right), m.output_interval)

\* (mutant) reset_peak also restarting the output throttle
ResetPeakClearsCount(m) == [m EXCEPT !.peak_l = 0, !.peak_r = 0, !.sample_count = 0]

\* reset_peak
ResetPeakMeter(m) == [m EXCEPT !.peak_l = 0, !.peak_r = 0]

\* the delay lines of a filter zeroed, the coefficients kept
FilterCleared(f) ==
    [f EXCEPT !.stage1.z1 = 0, !.stage1.z2 = 0, !.stage2.z1 = 0, !.stage2.z2 = 0]

\* (mutant) a ring buffer emptied by dropping its cells
BufferClearedEmpty(b) ==
    [buf |-> <<>>, head |-> 0, len |-> 0, sum |-> 0, compensation |-> 0]

\* a ring buffer zeroed in place
BufferCleared(b) ==
    [buf |-> RepeatZero(Len(b.buf)), head |-> 0, len |-> 0, sum |-> 0, compensation |-> 0]

\* (mutant) reset_all leaving the sample counter alone
ResetAllKeepsCount(m) ==
    [m EXCEPT !.filter_l = FilterCleared(m.filter_l),
              !.filter_r = FilterCleared(m.filter_r),
              !.moment_l = BufferCleared(m.moment_l),
              !.moment_r = BufferCleared(m.moment_r),
              !.short_l = BufferCleared(m.short_l),
              !.short_r = BufferCleared(m.short_r),
              !.peak_l = 0,
              !.peak_r = 0,
              !.cached_momentary = LUFS_FLOOR,
              !.cached_short_term = LUFS_FLOOR]

\* reset_all
ResetAllMeter(m) ==
    [m EXCEPT !.filter_l = FilterCleared(m.filter_l),
              !.filter_r = FilterCleared(m.filter_r),
              !.moment_l = BufferCleared(m.moment_l),
              !.moment_r = BufferCleared(m.moment_r),
              !.short_l = BufferCleared(m.short_l),
              !.short_r = BufferCleared(m.short_r),
              !.peak_l = 0,
              !.peak_r = 0,
              !.sample_count = 0,
              !.cached_momentary = LUFS_FLOOR,
              !.cached_short_term = LUFS_FLOOR]

\* (mutant) the peak conversion without its floor
PeakDbNoFloor(peak) == FAffine(20, FLog10(peak), 0)

\* 20 * log10(peak) with the floor of peak_l_db / peak_r_db
PeakDb(peak) ==
    IF FLt(peak, POWER_FLOOR) THEN LUFS_FLOOR
    ELSE FAffine(20, FLog10(peak), 0)

\* warmup_progress, in grid units (ONE is 1.0)
WarmupProgress(m) ==
    LET filled   == Min(m.moment_l.len, m.moment_r.len)
        capacity == Len(m.moment_l.buf)
    IN  IF capacity = 0 THEN ONE
        ELSE Min(RoundRat(ToF32(filled) * ONE, ToF32(capacity), F32MantBits), ONE)

Getters ==
    {"momentary_lufs", "short_term_lufs", "peak_l_db", "peak_r_db",
     "peak_l", "peak_r", "warmup_progress"}

\* what each getter returns
GetterValue(g, m) ==
    CASE g = "momentary_lufs"  -> m.cached_momentary
      [] g = "short_term_lufs" -> m.cached_short_term
      [] g = "peak_l_db"       -> PeakDb(m.peak_l)
      [] g = "peak_r_db"       -> PeakDb(m.peak_r)
      [] g = "peak_l"          -> m.peak_l
      [] g = "peak_r"          -> m.peak_r
      [] g = "warmup_progress" -> WarmupProgress(m)

-----------------------------------------------------------------------------
(* The meter as a state machine: specification Spec *)

\* sample values offered to the left and to the right channel
LeftSamples == {0, ONE}

RightSamples == {-(ONE \div 2)}

\* the slices of at most MaxBlock samples over a set of sample values
Blocks(S) == UNION {[1..k -> S] : k \in 0..MaxBlock}

HistNew ==
    [calls  |-> 0,      \* process_block calls since construction or reset_all
     total  |-> 0,      \* samples processed since construction or reset_all
     acc    |-> 0,      \* samples processed since the last true return
     trues  |-> 0,      \* true returns since construction or reset_all
     excess |-> 0,      \* samples beyond the interval at the true returns so far
     loud   |-> FALSE,  \* a sample other than 0 was processed since then
     zeros  |-> 0,      \* length of the run of all-zero sample pairs processed last
     left   |-> <<>>,   \* the slices of the last process_block call, where
     right  |-> <<>>,   \* the specification keeps them
     max_l  |-> 0,      \* largest magnitude among the left and the right
     max_r  |-> 0,      \* samples processed since the peaks were last reset
     bad_l  |-> FALSE,  \* a NaN or infinite left / right sample was processed
     bad_r  |-> FALSE]  \* since construction or reset_all

\* the number of all-zero sample pairs that end the first n of a call
RECURSIVE TrailingZeros(_, _, _)
TrailingZeros(left, right, n) ==
    IF n = 0 \/ left[n] # 0 \/ right[n] # 0 THEN 0
    ELSE 1 + TrailingZeros(left, right, n - 1)

\* the largest magnitude among the first n samples of s, and 0 if n = 0
RECURSIVE MaxAbs(_, _)
MaxAbs(s, n) ==
    IF n = 0 THEN 0
    ELSE IF IsNaN(s[n]) THEN MaxAbs(s, n - 1)
    ELSE Max(Abs(s[n]), MaxAbs(s, n - 1))

\* one of the first n samples of s is NaN or infinite
HasNonFinite(s, n) == \E i \in 1..n : ~IsFinite(s[i])

\* the bookkeeping after a process_block call of n samples returning r
HistAfterBlock(h, left, right, r, interval, keep) ==
    LET n == BlockLen(left, right)
    IN  [calls  |-> h.calls + 1,
         total  |-> h.total + n,
         acc    |-> IF r THEN 0 ELSE h.acc + n,
         trues  |-> IF r THEN h.trues + 1 ELSE h.trues,
         excess |-> IF r THEN h.excess + (h.acc + n - interval) ELSE h.excess,
         loud   |-> h.loud \/ TrailingZeros(left, right, n) < n,
         zeros  |-> IF TrailingZeros(left, right, n) = n THEN h.zeros + n
                    ELSE TrailingZeros(left, right, n),
         left   |-> IF keep THEN left ELSE <<>>,
         right  |-> IF keep THEN right ELSE <<>>,
         max_l  |-> Max(h.max_l, MaxAbs(left, n)),
         max_r  |-> Max(h.max_r, MaxAbs(right, n)),
         bad_l  |-> h.bad_l \/ HasNonFinite(left, n),
         bad_r  |-> h.bad_r \/ HasNonFinite(right, n)]

\* the pairs of slices offered to process_block: of equal length, or one of
\* them one sample longer than the other
BlockPairs ==
    {p \in Blocks(LeftSamples) \X Blocks(RightSamples) :
        Len(p[1]) - Len(p[2]) \in {-1, 0, 1}}

\* the sample rates the meters of Spec are constructed with
MeterRates == {1, 6, 30}

IdleRing == RingBufferNew(0)

Init ==
    /\ LauncherNew
    /\ sample_rate \in MeterRates
    /\ meter = LufsMeterNew(sample_rate)
    /\ panicked = FALSE
    /\ op = "new"
    /\ ret = FALSE
    /\ hist = HistNew
    /\ rb = IdleRing
    /\ pushed = <<>>

\* process_block(left, right) on the meter; keep: whether the bookkeeping
\* keeps the slices
ProcessBlockStep(left, right, keep) ==
    /\ ~panicked
    /\ op' = "process_block"
    /\ IF BlockPanics(meter, left, right)
       THEN /\ panicked' = TRUE
            /\ ret' = FALSE
            /\ hist' = [hist EXCEPT !.left = IF keep THEN left ELSE <<>>,
                                    !.right = IF keep THEN right ELSE <<>>]
            /\ UNCHANGED meter
       ELSE \/ /\ CountOverflows(meter, left, right)
               /\ panicked' = TRUE
               /\ ret' = FALSE
               /\ hist' = [hist EXCEPT !.left = IF keep THEN left ELSE <<>>,
                                       !.right = IF keep THEN right ELSE <<>>]
               /\ UNCHANGED meter
            \/ /\ meter' = BlockMeter(meter, left, right)
               /\ ret' = BlockReturn(meter, left, right)
               /\ hist' = HistAfterBlock(hist, left, right,
                                         BlockReturn(meter, left, right),
                                         meter.output_interval, keep)
               /\ UNCHANGED panicked
    /\ UNCHANGED <<launcher, sample_rate, rb>>

\* process_block(left, right)
ProcessBlock(left, right, keep) ==
    /\ ProcessBlockStep(left, right, keep)
    /\ UNCHANGED pushed

\* reset_peak()
ResetPeak ==
    /\ ~panicked
    /\ meter' = ResetPeakMeter(meter)
    /\ op' = "reset_peak"
    /\ ret' = FALSE
    /\ hist' = [hist EXCEPT !.max_l = 0, !.max_r = 0]
    /\ UNCHANGED <<launcher, sample_rate, panicked, rb, pushed>>

\* reset_all()
ResetAll ==
    /\ ~panicked
    /\ meter' = ResetAllMeter(meter)
    /\ op' = "reset_all"
    /\ ret' = FALSE
    /\ hist' = HistNew
    /\ UNCHANGED <<launcher, sample_rate, panicked, rb, pushed>>

\* a read of getter g
Get(g) ==
    /\ ~panicked
    /\ op' = g
    /\ ret' = GetterValue(g, meter)
    /\ UNCHANGED <<launcher, sample_rate, meter, panicked, hist, rb, pushed>>

\* the bound on the calls and samples of one meter in Spec
WithinBounds(n) == hist.calls < MaxCalls /\ hist.total + n <= MaxFed

Next ==
    \/ \E p \in BlockPairs :
          WithinBounds(BlockLen(p[1], p[2])) /\ ProcessBlock(p[1], p[2], FALSE)
    \/ ResetPeak
    \/ ResetAll
    \/ \E g \in Getters : Get(g)

Spec == Init /\ [][Next]_vars

-----------------------------------------------------------------------------
(* Specification SpecCut: process_block on slices of any two lengths, the  *)
(* slices of the last call kept in hist                                    *)

CutRates == {1, 6, 30}

\* the slices offered: the left one over LeftSamples, the right one over
\* RightSamples, of any two lengths
CutPairs == Blocks(LeftSamples) \X Blocks(RightSamples)

\* the bound on the calls and samples of one meter in SpecCut
CutBounds(n) == hist.calls < CutDepth /\ hist.total + n <= MaxBlock

CutInit ==
    /\ LauncherNew
    /\ sample_rate \in CutRates
    /\ meter = LufsMeterNew(sample_rate)
    /\ panicked = FALSE
    /\ op = "new"
    /\ ret = FALSE
    /\ hist = HistNew
    /\ rb = IdleRing
    /\ pushed = <<>>

CutNext ==
    \/ \E p \in CutPairs :
          CutBounds(BlockLen(p[1], p[2])) /\ ProcessBlock(p[1], p[2], TRUE)
    \/ ResetAll

SpecCut == CutInit /\ [][CutNext]_vars

-----------------------------------------------------------------------------
(* Specification SpecStream: long streams, a short prefix of arbitrary     *)
(* samples followed by silence, both channels fed the same samples         *)

StreamRates == {1, 6, 12, 30}

\* the length of the streams fed at a rate: past one short-term window
StreamLen(fs) == ShortTermSamples(fs) + LoudPrefix + MaxBlock

Constant(k, v) == [i \in 1..k |-> v]

StreamInit ==
    /\ LauncherNew
    /\ sample_rate \in StreamRates
    /\ meter = LufsMeterNew(sample_rate)
    /\ panicked = FALSE
    /\ op = "new"
    /\ ret = FALSE
    /\ hist = HistNew
    /\ rb = IdleRing
    /\ pushed = <<>>

\* a block of k samples of value v on both channels: any block inside the
\* prefix, blocks of MaxBlock zeros after it
StreamBlock(k, v) ==
    /\ hist.total + k <= StreamLen(sample_rate)
    /\ \/ hist.total + k <= LoudPrefix
       \/ v = 0 /\ k = MaxBlock
    /\ ProcessBlock(Constant(k, v), Constant(k, v), FALSE)

StreamNext ==
    \/ \E k \in 1..MaxBlock, v \in LeftSamples : StreamBlock(k, v)
    \/ ResetAll

SpecStream == StreamInit /\ [][StreamNext]_vars

-----------------------------------------------------------------------------
(* Specification SpecCount: blocks as long as the range of the sample      *)
(* counter, the same samples on both channels                              *)

\* rates with a window of at least one slot and an interval of at least one
CountRates == {12, 30}

\* block lengths: short ones, and those at the end of the counter's range
CountLens == {0, 1, 2, 2^CountBits - 1, 2^CountBits}

CountInit ==
    /\ LauncherNew
    /\ sample_rate \in CountRates
    /\ meter = LufsMeterNew(sample_rate)
    /\ panicked = FALSE
    /\ op = "new"
    /\ ret = FALSE
    /\ hist = HistNew
    /\ rb = IdleRing
    /\ pushed = <<>>

\* process_block calls on a meter of SpecCount
CountDepth == CutDepth + 1

CountNext ==
    \/ \E k \in CountLens, v \in LeftSamples :
          /\ hist.calls < CountDepth
          /\ ProcessBlock(Constant(k, v), Constant(k, v), TRUE)
    \/ ResetAll

SpecCount == CountInit /\ [][CountNext]_vars

-----------------------------------------------------------------------------
(* Specification SpecCoef: KWeightFilter::new at audio sample rates         *)

CoefRates == {1000 * k : k \in 8..MaxRateKHz} \cup {44100}

CoefInit ==
    /\ LauncherNew
    /\ sample_rate \in CoefRates
    /\ meter = LufsMeterNew(6)
    /\ panicked = FALSE
    /\ op = "idle"
    /\ ret = FALSE
    /\ hist = HistNew
    /\ rb = IdleRing
    /\ pushed = <<>>

\* KWeightFilter::new(sample_rate)
KWeightNew ==
    /\ op = "idle"
    /\ op' = "KWeightFilter::new"
    /\ ret' = KWeightFilterMicro(sample_rate)
    /\ UNCHANGED <<launcher, sample_rate, meter, panicked, hist, rb, pushed>>

CoefNext == KWeightNew

SpecCoef == CoefInit /\ [][CoefNext]_vars

-----------------------------------------------------------------------------
(* Specification SpecNew: LufsMeter::new at the sample rates of audio       *)
(* hardware, the filters computed in millionths                              *)

NewRates == {8000 + 25 * k : k \in 0..47} \cup {11025, 22050, 44100, 48000}

\* LufsMeter::new with the coefficients of KWeightFilter::new in millionths
LufsMeterNewMicro(fs) ==
    [filter_l |-> KWeightFilterMicro(fs),
     filter_r |-> KWeightFilterMicro(fs),
     moment_l |-> RingBufferNew(MomentarySamples(fs)),
     moment_r |-> RingBufferNew(MomentarySamples(fs)),
     short_l |-> RingBufferNew(ShortTermSamples(fs)),
     short_r |-> RingBufferNew(ShortTermSamples(fs)),
     peak_l |-> 0,
     peak_r |-> 0,
     sample_count |-> 0,
     output_interval |-> OutputInterval(fs),
     cached_momentary |-> LUFS_FLOOR,
     cached_short_term |-> LUFS_FLOOR]

NewInit ==
    /\ LauncherNew
    /\ sample_rate \in NewRates
    /\ meter = LufsMeterNew(6)
    /\ panicked = FALSE
    /\ op = "idle"
    /\ ret = FALSE
    /\ hist = HistNew
    /\ rb = IdleRing
    /\ pushed = <<>>

\* LufsMeter::new(sample_rate)
New ==
    /\ op = "idle"
    /\ op' = "new"
    /\ meter' = LufsMeterNewMicro(sample_rate)
    /\ UNCHANGED <<launcher, sample_rate, ret, panicked, hist, rb, pushed>>

NewNext == New

SpecNew == NewInit /\ [][NewNext]_vars

-----------------------------------------------------------------------------
(* Specification SpecBiquad: KWeightFilter::process on a filter of          *)
(* arbitrary coefficients.  The coefficients and the samples are whole       *)
(* numbers, so that no operation rounds.                                     *)

BiquadCoefs == {-ONE, ONE, 2 * ONE}

BiquadInputs == {-ONE, 0, ONE}

\* the coefficient rows <<b0, b1, b2, a1, a2>> of stage 1 and of stage 2
Stage1Rows == [1..5 -> BiquadCoefs]

Stage2Rows == {<<ONE, -ONE, 2 * ONE, ONE, -ONE>>, <<2 * ONE, ONE, -ONE, -ONE, ONE>>}

BiquadInit ==
    /\ LauncherNew
    /\ sample_rate = 6
    /\ \E c \in Stage1Rows, d \in Stage2Rows :
          meter = [LufsMeterNew(sample_rate) EXCEPT
                      !.filter_l = [stage1 |-> BiquadNew(c[1], c[2], c[3], c[4], c[5]),
                                    stage2 |-> BiquadNew(d[1], d[2], d[3], d[4], d[5])]]
    /\ panicked = FALSE
    /\ op = "new"
    /\ ret = 0
    /\ hist = HistNew
    /\ rb = IdleRing
    /\ pushed = <<>>

\* filter_l.process(x); pushed keeps the samples handed in
KWeightProcess(x) ==
    /\ Len(pushed) < MaxProcess
    /\ op' = "process"
    /\ ret' = KWeightOut(meter.filter_l, x)
    /\ meter' = [meter EXCEPT !.filter_l = KWeightStep(meter.filter_l, x)]
    /\ pushed' = Append(pushed, x)
    /\ UNCHANGED <<launcher, sample_rate, panicked, hist, rb>>

BiquadNext == \E x \in BiquadInputs : KWeightProcess(x)

SpecBiquad == BiquadInit /\ [][BiquadNext]_vars

-----------------------------------------------------------------------------
(* Specification SpecChunk: process_block, reset_peak and reset_all; pushed  *)
(* keeps what happened since construction or reset_all: a pair <<l, r>> for  *)
(* each sample pair processed, <<"reset_peak">> for each reset_peak          *)

ChunkRates == {6, 30}

ChunkInit ==
    /\ LauncherNew
    /\ sample_rate \in ChunkRates
    /\ meter = LufsMeterNew(sample_rate)
    /\ panicked = FALSE
    /\ op = "new"
    /\ ret = FALSE
    /\ hist = HistNew
    /\ rb = IdleRing
    /\ pushed = <<>>

\* process_block(left, right), the pairs it processes appended to pushed
ChunkBlock(left, right) ==
    /\ ProcessBlockStep(left, right, FALSE)
    /\ pushed' = pushed \o [i \in 1..BlockLen(left, right) |-> <<left[i], right[i]>>]

\* reset_all(), which starts the stream afresh
ChunkResetAll ==
    /\ ~panicked
    /\ meter' = ResetAllMeter(meter)
    /\ op' = "reset_all"
    /\ ret' = FALSE
    /\ hist' = HistNew
    /\ pushed' = <<>>
    /\ UNCHANGED <<launcher, sample_rate, panicked, rb>>

\* reset_peak(); a second reset_peak in a row changes nothing and is left out
ChunkResetPeak ==
    /\ ~panicked
    /\ pushed # <<>> /\ Len(pushed[Len(pushed)]) = 2
    /\ meter' = ResetPeakMeter(meter)
    /\ op' = "reset_peak"
    /\ ret' = FALSE
    /\ hist' = [hist EXCEPT !.max_l = 0, !.max_r = 0]
    /\ pushed' = Append(pushed, <<"reset_peak">>)
    /\ UNCHANGED <<launcher, sample_rate, panicked, rb>>

ChunkNext ==
    \/ \E p \in BlockPairs :
          WithinBounds(BlockLen(p[1], p[2])) /\ ChunkBlock(p[1], p[2])
    \/ ChunkResetPeak
    \/ ChunkResetAll

SpecChunk == ChunkInit /\ [][ChunkNext]_vars

-----------------------------------------------------------------------------
(* Specification SpecPoison: the meter fed samples that may be NaN or       *)
(* infinite                                                                  *)

PoisonRates == {6, 30}

PoisonLeft == {ONE, NaN, Inf, -Inf}

PoisonRight == {-(ONE \div 2), NaN}

\* the slices offered: of equal length
PoisonPairs ==
    {p \in Blocks(PoisonLeft) \X Blocks(PoisonRight) : Len(p[1]) = Len(p[2])}

\* the bound on the calls and samples of one meter in SpecPoison
PoisonBounds(n) == hist.calls < MaxCalls /\ hist.total + n <= MaxBlock + 1

PoisonInit ==
    /\ LauncherNew
    /\ sample_rate \in PoisonRates
    /\ meter = LufsMeterNew(sample_rate)
    /\ panicked = FALSE
    /\ op = "new"
    /\ ret = FALSE
    /\ hist = HistNew
    /\ rb = IdleRing
    /\ pushed = <<>>

PoisonNext ==
    \/ \E p \in PoisonPairs :
          PoisonBounds(BlockLen(p[1], p[2])) /\ ProcessBlock(p[1], p[2], FALSE)
    \/ ResetPeak
    \/ ResetAll

SpecPoison == PoisonInit /\ [][PoisonNext]_vars

-----------------------------------------------------------------------------
(* Specification SpecTone: the 48 kHz meter fed a full-scale 1 kHz sine on  *)
(* both channels, computed in millionths.  The filters are those of          *)
(* KWeightFilter::new(48000.0).  Time is scaled by 3000: the windows and the *)
(* interval are those LufsMeter::new derives for 16 Hz, so that the          *)
(* short-term window holds one period of the tone (48 samples) where the     *)
(* program's holds 3000 of them; the mean over 3000 consecutive periods is   *)
(* the mean of the 3000 one-period means.                                    *)

ToneRate == 48000
ToneHz == 1000
WindowRate == 16

TonePeriod == ToneRate \div ToneHz

\* sin(2 pi j / TonePeriod) for j up to a quarter period, in millionths
SinQuarter(j) ==
    LET x == (2 * PI * j) \div TonePeriod
    IN  SinCos(x, x, MICRO, MICRO, SMul(x, x), 1)[1]

\* sample i of the tone (amplitude 1.0)
Tone(i) ==
    LET k == i % TonePeriod
        h == TonePeriod \div 2
    IN  IF k <= h \div 2 THEN SinQuarter(k)
        ELSE IF k <= h THEN SinQuarter(h - k)
        ELSE IF k <= h + h \div 2 THEN -SinQuarter(k - h)
        ELSE -SinQuarter(TonePeriod - k)

\* Biquad::process in millionths
BiquadOutMicro(q, x) == SMul(q.b0, x) + q.z1

BiquadStepMicro(q, x) ==
    LET y == BiquadOutMicro(q, x)
    IN  [q EXCEPT !.z1 = SMul(q.b1, x) - SMul(q.a1, y) + q.z2,
                  !.z2 = SMul(q.b2, x) - SMul(q.a2, y)]

\* KWeightFilter::process in millionths
KWeightOutMicro(f, x) == BiquadOutMicro(f.stage2, BiquadOutMicro(f.stage1, x))

KWeightStepMicro(f, x) ==
    [f EXCEPT !.stage1 = BiquadStepMicro(f.stage1, x),
              !.stage2 = BiquadStepMicro(f.stage2, BiquadOutMicro(f.stage1, x))]

\* power_to_lufs of a power in millionths, in thousandths of a LU
PowerToLufsMicro(mean_square) ==
    IF mean_square < POWER_FLOOR THEN LUFS_FLOOR
    ELSE LUFS_OFFSET + 10 * (Log10Milli(mean_square) - Log10Milli(MICRO))

\* LufsMeter::new for the tone
ToneMeterNew ==
    [LufsMeterNew(6) EXCEPT
        !.filter_l = KWeightFilterMicro(ToneRate),
        !.filter_r = KWeightFilterMicro(ToneRate),
        !.moment_l = RingBufferNew(MomentarySamples(WindowRate)),
        !.moment_r = RingBufferNew(MomentarySamples(WindowRate)),
        !.short_l = RingBufferNew(ShortTermSamples(WindowRate)),
        !.short_r = RingBufferNew(ShortTermSamples(WindowRate)),
        !.output_interval = OutputInterval(WindowRate)]

\* one iteration of the loop of process_block, in millionths
ProcessSampleMicro(m, l, r) ==
    LET kl   == KWeightOutMicro(m.filter_l, l)
        kr   == KWeightOutMicro(m.filter_r, r)
        sq_l == SMul(kl, kl)
        sq_r == SMul(kr, kr)
    IN  [m EXCEPT !.filter_l = KWeightStepMicro(m.filter_l, l),
                  !.filter_r = KWeightStepMicro(m.filter_r, r),
                  !.moment_l = Push(m.moment_l, sq_l),
                  !.moment_r = Push(m.moment_r, sq_r),
                  !.short_l = Push(m.short_l, sq_l),
                  !.short_r = Push(m.short_r, sq_r),
                  !.peak_l = PeakAfter(m.peak_l, l),
                  !.peak_r = PeakAfter(m.peak_r, r)]

RECURSIVE ProcessSamplesMicro(_, _, _, _, _)
ProcessSamplesMicro(m, left, right, i, n) ==
    IF i > n THEN m
    ELSE ProcessSamplesMicro(ProcessSampleMicro(m, left[i], right[i]),
                             left, right, i + 1, n)

MomentaryPowerMicro(m) == SMul(FAdd(Mean(m.moment_l), Mean(m.moment_r)), MICRO \div 2)

\* (mutant) the two channels' powers added, not averaged
ShortTermPowerMicroSum(m) == FAdd(Mean(m.short_l), Mean(m.short_r))

ShortTermPowerMicro(m) == SMul(FAdd(Mean(m.short_l), Mean(m.short_r)), MICRO \div 2)

\* process_block in millionths: the meter after the call
BlockMeterMicro(m, left, right) ==
    LET m1 == ProcessSamplesMicro(m, left, right, 1, BlockLen(left, right))
        c  == CountAfter(m, left, right)
    IN  IF IntervalReached(c, m.output_interval)
        THEN [m1 EXCEPT !.sample_count = 0,
                        !.cached_momentary = PowerToLufsMicro(MomentaryPowerMicro(m1)),
                        !.cached_short_term = PowerToLufsMicro(ShortTermPowerMicro(m1))]
        ELSE [m1 EXCEPT !.sample_count = c]

ToneInit ==
    /\ LauncherNew
    /\ sample_rate = ToneRate
    /\ meter = ToneMeterNew
    /\ panicked = FALSE
    /\ op = "new"
    /\ ret = FALSE
    /\ hist = HistNew
    /\ rb = IdleRing
    /\ pushed = <<>>

\* process_block on the next k samples of the tone, on both channels
ToneBlock(k) ==
    /\ hist.total + k <= MaxToneSamples
    /\ LET block == [i \in 1..k |-> Tone(hist.total + i - 1)]
       IN  /\ meter' = BlockMeterMicro(meter, block, block)
           /\ ret' = BlockReturn(meter, block, block)
           /\ hist' = HistAfterBlock(hist, block, block,
                                     BlockReturn(meter, block, block),
                                     meter.output_interval, FALSE)
    /\ op' = "process_block"
    /\ UNCHANGED <<launcher, sample_rate, panicked, rb, pushed>>

ToneNext == ToneBlock(1)

SpecTone == ToneInit /\ [][ToneNext]_vars

-----------------------------------------------------------------------------
(* Specification SpecRing: a RingBuffer on its own, arbitrary values pushed *)

RingCaps == 0..MaxRingCap

\* values pushed: 0.0, 1.0, 3.0, and one so large that 1.0 is less than half
\* a unit in its last place (1e20 next to 1.0 in f64)
RingValues == {0, ONE, 3 * ONE, 2^(MantBits + 1) * ONE}

RingInit ==
    /\ LauncherNew
    /\ sample_rate = 6
    /\ meter = LufsMeterNew(sample_rate)
    /\ panicked = FALSE
    /\ op = "new"
    /\ ret = FALSE
    /\ hist = HistNew
    /\ rb \in {RingBufferNew(c) : c \in RingCaps}
    /\ pushed = <<>>

\* push(value)
RingPush(value) ==
    /\ ~panicked
    /\ Len(pushed) < MaxPush
    /\ op' = "push"
    /\ ret' = FALSE
    /\ IF PushPanics(rb)
       THEN panicked' = TRUE /\ UNCHANGED <<rb, pushed>>
       ELSE rb' = Push(rb, value) /\ pushed' = Append(pushed, value) /\ UNCHANGED panicked
    /\ UNCHANGED <<launcher, sample_rate, meter, hist>>

\* mean()
RingMean ==
    /\ ~panicked
    /\ op' = "mean"
    /\ ret' = Mean(rb)
    /\ UNCHANGED <<launcher, sample_rate, meter, panicked, hist, rb, pushed>>

RingNext ==
    \/ \E value \in RingValues : RingPush(value)
    \/ RingMean

SpecRing == RingInit /\ [][RingNext]_vars

-----------------------------------------------------------------------------
(* Specification SpecLive: a stream that never ends.  Non-empty blocks of  *)
(* one sample pair repeated, kept in pushed, are delivered for ever and     *)
(* nothing else is called.  Of the history only the parity of the number    *)
(* of calls is kept, in hist.calls, so the states are finitely many.        *)

\* rates with an output interval of at least one sample
LiveRates == {12, 30}

\* lengths of the blocks delivered
LiveLens == {1, 2, 2^CountBits}

LiveInit ==
    /\ LauncherNew
    /\ sample_rate \in LiveRates
    /\ meter = LufsMeterNew(sample_rate)
    /\ panicked = FALSE
    /\ op = "new"
    /\ ret = FALSE
    /\ hist = HistNew
    /\ rb = IdleRing
    /\ pushed \in {<<<<l, r>>>> : l \in LeftSamples, r \in RightSamples}

\* process_block(left, right)
LiveBlock(left, right) ==
    /\ ~panicked
    /\ op' = "process_block"
    /\ IF BlockPanics(meter, left, right)
       THEN /\ panicked' = TRUE
            /\ ret' = FALSE
            /\ UNCHANGED meter
       ELSE \/ /\ CountOverflows(meter, left, right)
               /\ panicked' = TRUE
               /\ ret' = FALSE
               /\ UNCHANGED meter
            \/ /\ meter' = BlockMeter(meter, left, right)
               /\ ret' = BlockReturn(meter, left, right)
               /\ UNCHANGED panicked
    /\ hist' = [hist EXCEPT !.calls = 1 - @]
    /\ UNCHANGED <<launcher, sample_rate, rb, pushed>>

\* the caller delivers the next block of the stream
LiveDeliver ==
    \E k \in LiveLens :
        LiveBlock(Constant(k, pushed[1][1]), Constant(k, pushed[1][2]))

LiveNext == LiveDeliver

\* a call is made: every step of LiveNext is one and changes hist, and one
\* is possible for as long as no call has panicked
LiveCall == ~panicked /\ hist' = [hist EXCEPT !.calls = 1 - @]

\* blocks keep being delivered for as long as the meter takes them
SpecLive == LiveInit /\ [][LiveNext]_vars /\ WF_hist(LiveCall)

-----------------------------------------------------------------------------
(* Specification SpecLauncher: the launcher's management of the Node       *)
(* server process (the Python server has the same code on a ProcessState   *)
(* of its own).  Commands run one at a time on the main thread; the        *)
(* threads they start, the monitor threads and the child processes run     *)
(* in any order.  Each access to the ProcessState is under its mutex.      *)

\* child processes spawned in a run
MaxSpawn == 3

\* the pids of the child processes alive
Alive == {p \in 1..Len(processes) : processes[p] = "running"}

\* is_process_running: a stored child that has exited is forgotten
AfterRunningCheck(st) ==
    IF st.child # None /\ processes[st.child] # "running"
    THEN [child |-> None, status |-> "Exited"]
    ELSE st

IsProcessRunning(st) == st.child # None /\ processes[st.child] = "running"

\* a thread is started that will call spawn_process
ThreadSpawned ==
    /\ Len(processes) + threads.spawning < MaxSpawn
    /\ threads' = [threads EXCEPT !.spawning = @ + 1]

\* stop_process: the stored child is taken and killed; killing a child that
\* has already exited succeeds or fails with the platform
StopProcess ==
    LET c == node_server.child
    IN  IF c = None
        THEN /\ node_server' = [node_server EXCEPT !.status = "Not running"]
             /\ UNCHANGED processes
        ELSE IF processes[c] = "running"
        THEN /\ node_server' = [child |-> None, status |-> "Stopped"]
             /\ processes' = [processes EXCEPT ![c] = "killed"]
        ELSE /\ \E s \in {"Stopped", "Failed to stop"} :
                   node_server' = [child |-> None, status |-> s]
             /\ UNCHANGED processes

\* the command start_node_server (and the tray menu's node_start)
StartNodeServer ==
    /\ node_server' = AfterRunningCheck(node_server)
    /\ IF IsProcessRunning(node_server)
       THEN UNCHANGED threads
       ELSE ThreadSpawned
    /\ UNCHANGED <<processes, sample_rate, meter, panicked, op, ret, hist, rb, pushed>>

\* the command stop_node_server (and the tray menu's node_stop)
StopNodeServer ==
    /\ StopProcess
    /\ UNCHANGED <<threads, sample_rate, meter, panicked, op, ret, hist, rb, pushed>>

\* the command restart_node_server
RestartNodeServer ==
    /\ StopProcess
    /\ ThreadSpawned
    /\ UNCHANGED <<sample_rate, meter, panicked, op, ret, hist, rb, pushed>>

\* a started thread runs spawn_process: under the lock the command is
\* spawned and, when that succeeded, its handle stored
SpawnProcess ==
    /\ threads.spawning > 0
    /\ \/ /\ processes' = Append(processes, "running")
          /\ node_server' = [child |-> Len(processes) + 1, status |-> "Running"]
          /\ threads' = [spawning |-> threads.spawning - 1,
                         monitoring |-> threads.monitoring + 1]
       \/ /\ node_server' = [node_server EXCEPT !.status = "Failed to start"]
          /\ threads' = [threads EXCEPT !.spawning = @ - 1]
          /\ UNCHANGED processes
    /\ UNCHANGED <<sample_rate, meter, panicked, op, ret, hist, rb, pushed>>

\* a monitor thread wakes up: it ends when no child is stored or the stored
\* child has exited, which it records
Monitor ==
    /\ threads.monitoring > 0
    /\ IF node_server.child = None
       THEN /\ threads' = [threads EXCEPT !.monitoring = @ - 1]
            /\ UNCHANGED node_server
       ELSE /\ processes[node_server.child] # "running"
            /\ node_server' = [child |-> None, status |-> "Exited"]
            /\ threads' = [threads EXCEPT !.monitoring = @ - 1]
    /\ UNCHANGED <<processes, sample_rate, meter, panicked, op, ret, hist, rb, pushed>>

\* a child process ends by itself
ChildExits ==
    /\ \E p \in Alive : processes' = [processes EXCEPT ![p] = "exited"]
    /\ UNCHANGED <<node_server, threads, sample_rate, meter, panicked, op, ret, hist, rb, pushed>>

LauncherInit ==
    /\ LauncherNew
    /\ sample_rate = 1
    /\ meter = LufsMeterNew(1)
    /\ panicked = FALSE
    /\ op = "new"
    /\ ret = FALSE
    /\ hist = HistNew
    /\ rb = IdleRing
    /\ pushed = <<>>

LauncherNext ==
    \/ StartNodeServer
    \/ StopNodeServer
    \/ RestartNodeServer
    \/ SpawnProcess
    \/ Monitor
    \/ ChildExits

SpecLauncher == LauncherInit /\ [][LauncherNext]_vars

-----------------------------------------------------------------------------
(* The claims *)

MomentaryCap == Len(meter.moment_l.buf)

ShortCap == Len(meter.short_l.buf)

BothCachedAtFloor ==
    meter.cached_momentary = LUFS_FLOOR /\ meter.cached_short_term = LUFS_FLOOR

\* the last n elements of a sequence (all of it when it is shorter)
LastN(seq, n) == SubSeq(seq, Len(seq) - Min(n, Len(seq)) + 1, Len(seq))

RECURSIVE SumSeq(_)
SumSeq(seq) == IF seq = <<>> THEN 0 ELSE Head(seq) + SumSeq(Tail(seq))

\* the values resident in a ring buffer, oldest first
Resident(b) ==
    IF b.len < Len(b.buf) THEN SubSeq(b.buf, 1, b.len)
    ELSE SubSeq(b.buf, b.head + 1, Len(b.buf)) \o SubSeq(b.buf, 1, b.head)

\* C1 as stated: true is returned exactly once per output_interval samples of
\* the stream whatever the chunking, so the number of true returns so far is the
\* number of multiples of output_interval the cumulative count has reached.
C1_TrueAtMultiples ==
    (~panicked /\ meter.output_interval > 0)
        => hist.trues = hist.total \div meter.output_interval

\* C1 amended: a call returns true exactly when the samples accumulated since
\* the last true return (or construction / reset_all) reach output_interval;
\* the counter holds exactly those samples and restarts at zero, and the true
\* returns fall on the multiples of output_interval only as long as no true
\* return has overshot the interval.
C1_TrueWhenAccumulated ==
    /\ [][(op' = "process_block" /\ ~panicked')
            => ret' = (hist.acc + (hist'.total - hist.total) >= meter.output_interval)]_vars
    /\ [](~panicked =>
            /\ meter.sample_count = hist.acc
            /\ (meter.output_interval > 0 /\ hist.excess = 0)
                  => hist.trues = hist.total \div meter.output_interval)

\* a call that returns false although the cumulative count has just reached
\* the second multiple of the interval, an earlier true return having overshot
C1_Witness ==
    /\ op = "process_block" /\ ~panicked /\ ret = FALSE
    /\ meter.output_interval > 0
    /\ hist.excess > 0
    /\ hist.total = 2 * meter.output_interval

\* C2 as stated: after reset_all the meter is the fresh meter and the getters
\* read -144.0, -144.0, 0.0, 0.0 and warmup_progress 0.0.
C2_ResetAllReadsZeroProgress ==
    op = "reset_all"
        => /\ meter = LufsMeterNew(sample_rate)
           /\ BothCachedAtFloor
           /\ meter.peak_l = 0 /\ meter.peak_r = 0
           /\ WarmupProgress(meter) = 0

\* C2 amended: after reset_all the meter is field for field the meter that
\* LufsMeter::new builds for the same sample rate (so every later operation
\* behaves as on a fresh meter); the getters read -144.0, -144.0, 0.0, 0.0 and
\* warmup_progress 0.0, or 1.0 when the momentary window has no slot.
C2_ResetAllIsFresh ==
    op = "reset_all"
        => /\ meter = LufsMeterNew(sample_rate)
           /\ \A g \in Getters :
                 GetterValue(g, meter) = GetterValue(g, LufsMeterNew(sample_rate))
           /\ BothCachedAtFloor
           /\ meter.peak_l = 0 /\ meter.peak_r = 0
           /\ WarmupProgress(meter) = IF MomentaryCap = 0 THEN ONE ELSE 0

C2_Witness == op = "reset_all" /\ MomentaryCap > 0 /\ WarmupProgress(meter) = 0

\* C3 as stated: warmup_progress never exceeds 1.0, is 1.0 when the capacity
\* is zero and as soon as the samples processed since construction or reset_all
\* reach the momentary capacity, is below 1.0 before that, and does not
\* decrease over process_block calls.
C3_WarmupProgress ==
    /\ [](~panicked =>
            /\ WarmupProgress(meter) <= ONE
            /\ MomentaryCap = 0 => WarmupProgress(meter) = ONE
            /\ hist.total >= MomentaryCap => WarmupProgress(meter) = ONE
            /\ hist.total < MomentaryCap => WarmupProgress(meter) < ONE)
    /\ [][op' = "process_block" => WarmupProgress(meter') >= WarmupProgress(meter)]_vars

\* C4 as stated: no operation panics, whatever sample_rate > 0 the meter was
\* built with.
C4_NoPanic == ~panicked

\* C5: the peaks never decrease except in reset_peak and reset_all.
C5_PeaksMonotone ==
    [][op' \notin {"reset_peak", "reset_all"}
          => /\ meter'.peak_l >= meter.peak_l
             /\ meter'.peak_r >= meter.peak_r]_vars

\* both peaks hold, a getter has been read, and two or more samples were fed
C5_Witness ==
    /\ op = "peak_l" /\ ret = ONE
    /\ meter.peak_r = ONE \div 2
    /\ hist.total >= 2

\* C6: process_block on slices of different lengths leaves the meter, and
\* returns, what the call on both slices cut to the shorter length does, and
\* counts that many samples; the difference in length raises no error (the call
\* fails only where the call on the cut slices fails).
C6_TruncatesToShorter ==
    [][op' = "process_block"
          => LET n == BlockLen(hist'.left, hist'.right)
                 l == SubSeq(hist'.left, 1, n)
                 r == SubSeq(hist'.right, 1, n)
             IN  /\ panicked' = BlockPanics(meter, l, r)
                 /\ ~panicked'
                      => /\ meter' = BlockMeter(meter, l, r)
                         /\ ret' = BlockReturn(meter, l, r)
                         /\ hist'.total = hist.total + n]_vars

\* the left slice was longer, its last sample was 1.0, and the left peak is 0
C6_Witness ==
    /\ op = "process_block"
    /\ Len(hist.left) > Len(hist.right)
    /\ hist.left[Len(hist.left)] = ONE
    /\ meter.peak_l = 0

\* C7 as stated: once zeros have been fed for a short-term window in a row both
\* loudness values are -144.0.
C7_SilentWindowGivesFloor ==
    (~panicked /\ hist.zeros >= ShortCap) => BothCachedAtFloor

\* C7 amended: a meter that has been fed nothing but zeros since construction
\* or reset_all reads -144.0 for both loudness values, after every update.
C7_OnlySilenceGivesFloor == ~hist.loud => BothCachedAtFloor

\* a full short-term window of silence on a fresh meter, and an update
C7_Witness ==
    /\ ~hist.loud
    /\ ShortCap > 0 /\ hist.zeros >= ShortCap
    /\ op = "process_block" /\ ~panicked /\ ret = TRUE

\* C8 as stated: sum + compensation is the exact sum of the len values pushed
\* last, which are the values resident in the buffer.
C8_SumIsExact ==
    ~panicked
        => /\ Resident(rb) = LastN(pushed, rb.len)
           /\ rb.sum + rb.compensation = SumSeq(Resident(rb))

\* the relative tolerance granted to mean(): the 1e-9 the specification grants
\* is some 2^23 units in the last place of an f64, here 2^5 of them
MeanTolerance == 2^(MantBits - 5)

\* C9 as stated: once N or more values have been pushed into a buffer of
\* capacity N, mean() is the arithmetic mean of the last N, up to the relative
\* tolerance (and the half grid unit the division may round by).
C9_MeanIsArithmeticMean ==
    (~panicked /\ Len(rb.buf) > 0 /\ Len(pushed) >= Len(rb.buf))
        => LET N == Len(rb.buf)
               S == SumSeq(LastN(pushed, N))
           IN  Abs(Mean(rb) * N - S) <= N + Abs(S) \div MeanTolerance

\* C10: the cached loudness values change only in a process_block call that
\* returns true, where they are the conversion of the current window powers, or
\* in reset_all; a getter changes nothing of the meter.
C10_CacheChangesOnlyOnUpdate ==
    /\ [][(\/ meter'.cached_momentary # meter.cached_momentary
           \/ meter'.cached_short_term # meter.cached_short_term)
            => \/ op' = "process_block" /\ ret' = TRUE
               \/ op' = "reset_all"]_vars
    /\ [][op' \in Getters => meter' = meter]_vars
    /\ []((op = "process_block" /\ ~panicked /\ ret = TRUE)
            => /\ meter.cached_momentary = PowerToLufs(MomentaryPower(meter))
               /\ meter.cached_short_term = PowerToLufs(ShortTermPower(meter)))

\* an update has published a loudness above the floor
C10_Witness ==
    /\ op = "process_block" /\ ~panicked /\ ret = TRUE
    /\ meter.cached_momentary # LUFS_FLOOR

\* C11: reset_peak sets both peaks to zero and changes no other field of the
\* meter, so warmup_progress and the value the next process_block call returns
\* are what they were.
C11_ResetPeakOnlyPeaks ==
    [][op' = "reset_peak"
          => /\ meter'.peak_l = 0 /\ meter'.peak_r = 0
             /\ \A f \in DOMAIN meter \ {"peak_l", "peak_r"} : meter'[f] = meter[f]
             /\ WarmupProgress(meter') = WarmupProgress(meter)
             /\ \A p \in BlockPairs :
                   BlockReturn(meter', p[1], p[2]) = BlockReturn(meter, p[1], p[2])]_vars

\* reset_peak has cleared a peak while the counter and the windows hold samples
C11_Witness ==
    /\ op = "reset_peak"
    /\ hist.total > 0 /\ meter.sample_count > 0 /\ meter.moment_r.len > 0
    /\ meter.peak_r = 0

\* C12: at an update a window power below the floor threshold gives exactly
\* -144.0 and any other power its logarithmic conversion; peak_l_db and
\* peak_r_db read exactly -144.0 for a peak below the threshold and 20 log10 of
\* the peak otherwise; no logarithm is taken of a value below the threshold.
C12_FloorBelowThreshold ==
    /\ (op = "process_block" /\ ~panicked /\ ret = TRUE)
          => /\ meter.cached_momentary =
                   IF MomentaryPower(meter) < POWER_FLOOR THEN LUFS_FLOOR
                   ELSE LUFS_OFFSET + 10 * FLog10(MomentaryPower(meter))
             /\ meter.cached_short_term =
                   IF ShortTermPower(meter) < POWER_FLOOR THEN LUFS_FLOOR
                   ELSE LUFS_OFFSET + 10 * FLog10(ShortTermPower(meter))
    /\ op = "peak_l_db"
          => ret = IF meter.peak_l < POWER_FLOOR THEN LUFS_FLOOR
                   ELSE 20 * FLog10(meter.peak_l)
    /\ op = "peak_r_db"
          => ret = IF meter.peak_r < POWER_FLOOR THEN LUFS_FLOOR
                   ELSE 20 * FLog10(meter.peak_r)

\* the left peak reads the floor while the right channel has given the
\* momentary loudness a value above it
C12_Witness ==
    /\ op = "peak_l_db" /\ ret = LUFS_FLOOR
    /\ meter.peak_r > 0
    /\ meter.cached_momentary # LUFS_FLOOR

\* C13 as stated: a call with n samples that does not fail for want of a
\* window slot completes, returns true exactly when the counter before the
\* call plus n has reached output_interval, and otherwise leaves the counter
\* at that sum; the counter addition does not overflow or wrap.
C13_CounterAddsBlockLength ==
    [][op' = "process_block"
          => LET n == BlockLen(hist'.left, hist'.right)
             IN  \/ BlockPanics(meter, hist'.left, hist'.right)
                 \/ /\ ~panicked'
                    /\ ret' = (meter.sample_count + n >= meter.output_interval)
                    /\ ret' \/ meter'.sample_count = meter.sample_count + n]_vars

\* the reference constants and the tolerance of the 48 kHz test, in millionths
expected_b0_s1 == 1535125
expected_b1_s1 == -2691696
expected_b2_s1 == 1198393
expected_a1_s1 == -1690659
expected_a2_s1 == 732481
expected_a1_s2 == -1990047
expected_a2_s2 == 990072
tol == 500

\* C14: the coefficients KWeightFilter::new computes for 48000 Hz are within
\* 5e-4 of the BS.1770-4 reference constants (stage 1: b0, b1, b2, a1, a2;
\* stage 2: a1, a2).
C14_CoefficientsMatchReference ==
    (op = "KWeightFilter::new" /\ sample_rate = 48000)
        => /\ Abs(ret.stage1.b0 - expected_b0_s1) < tol
           /\ Abs(ret.stage1.b1 - expected_b1_s1) < tol
           /\ Abs(ret.stage1.b2 - expected_b2_s1) < tol
           /\ Abs(ret.stage1.a1 - expected_a1_s1) < tol
           /\ Abs(ret.stage1.a2 - expected_a2_s1) < tol
           /\ Abs(ret.stage2.a1 - expected_a1_s2) < tol
           /\ Abs(ret.stage2.a2 - expected_a2_s2) < tol

\* the filter for 48000 Hz has been built
C14_Witness ==
    /\ op = "KWeightFilter::new" /\ sample_rate = 48000
    /\ ret.stage1.b0 > MICRO /\ ret.stage2.a1 < -MICRO

\* C15: with a full-scale 1 kHz sine on both channels of the 48 kHz meter,
\* every update made once the short-term window is full leaves short_term_lufs
\* strictly between -5.0 and -1.0.
C15_SineShortTermInRange ==
    (op = "process_block" /\ ret = TRUE /\ meter.short_l.len = ShortCap)
        => /\ meter.cached_short_term > -5000
           /\ meter.cached_short_term < -1000

\* the whole tone has been fed and the window has long been full
C15_Witness ==
    /\ sample_rate = ToneRate
    /\ op = "process_block" /\ ret = TRUE
    /\ meter.short_l.len = ShortCap
    /\ hist.total = MaxToneSamples
    /\ meter.peak_l > MICRO - 10

\* C16: the peaks are the largest magnitudes of the raw samples processed on
\* their channel since the last reset_peak or reset_all (0 if there were
\* none), whatever process_block returned, and peak_l() and peak_r() read them.
C16_PeaksAreMaxima ==
    ~panicked =>
        /\ meter.peak_l = hist.max_l
        /\ meter.peak_r = hist.max_r
        /\ (op = "peak_l" => ret = hist.max_l)
        /\ (op = "peak_r" => ret = hist.max_r)

\* a peak read after samples were processed in calls that all returned false
C16_Witness ==
    /\ op = "peak_l" /\ ret = ONE
    /\ meter.peak_r = ONE \div 2
    /\ hist.total >= 1
    /\ hist.trues = 0

\* every delay line of the filter, and the sums of both windows, are NaN or
\* infinite
ChannelPoisoned(f, mo, sh) ==
    /\ ~IsFinite(f.stage1.z1) /\ ~IsFinite(f.stage1.z2)
    /\ ~IsFinite(f.stage2.z1) /\ ~IsFinite(f.stage2.z2)
    /\ ~IsFinite(mo.sum) /\ ~IsFinite(sh.sum)

ChannelClean(f, mo, sh) ==
    /\ IsFinite(f.stage1.z1) /\ IsFinite(f.stage1.z2)
    /\ IsFinite(f.stage2.z1) /\ IsFinite(f.stage2.z2)
    /\ IsFinite(mo.sum) /\ IsFinite(sh.sum)

\* C17: a NaN or infinite sample is processed like any other: from then on,
\* until reset_all, the delay lines and the window sums of its channel are
\* NaN or infinite and every update publishes values that are not finite,
\* whatever follows (valid samples, reset_peak); the other channel is not
\* touched; after reset_all the meter is clean again.
C17_NonFiniteSamplePoisons ==
    ~panicked =>
        /\ hist.bad_l = ChannelPoisoned(meter.filter_l, meter.moment_l, meter.short_l)
        /\ hist.bad_l = ~ChannelClean(meter.filter_l, meter.moment_l, meter.short_l)
        /\ hist.bad_r = ChannelPoisoned(meter.filter_r, meter.moment_r, meter.short_r)
        /\ hist.bad_r = ~ChannelClean(meter.filter_r, meter.moment_r, meter.short_r)
        /\ (op = "process_block" /\ ret = TRUE /\ (hist.bad_l \/ hist.bad_r))
               => /\ ~IsFinite(meter.cached_momentary)
                  /\ ~IsFinite(meter.cached_short_term)
        /\ (~hist.bad_l /\ ~hist.bad_r)
               => /\ IsFinite(meter.cached_momentary)
                  /\ IsFinite(meter.cached_short_term)

\* an update after an infinite left sample, a reset_peak and a valid sample
C17_Witness ==
    /\ op = "process_block" /\ ret = TRUE
    /\ hist.bad_l /\ ~hist.bad_r
    /\ hist.calls >= 2
    /\ meter.peak_l = ONE
    /\ meter.moment_l.buf[1] = Inf
    /\ ~IsFinite(meter.cached_short_term)

\* the four ring buffers of the meter
Rings == {"moment_l", "moment_r", "short_l", "short_r"}

\* all four windows are full
AllFull(m) == \A b \in Rings : m[b].len = Len(m[b].buf)

\* the guard that process_block, reset_peak, reset_all and the getters share:
\* the meter has not been lost to a panic
OperationsEnabled == ~panicked

\* C18 as stated: over process_block no fill counter decreases or exceeds its
\* capacity; full windows stay full over process_block and reset_peak; only
\* reset_all takes a fill counter back; and in every reachable state every
\* operation is enabled (there is no terminal state).
C18_Lifecycle ==
    /\ [][op' = "process_block"
             => \A b \in Rings : /\ meter'[b].len >= meter[b].len
                                 /\ meter'[b].len <= Len(meter'[b].buf)]_vars
    /\ [][(AllFull(meter) /\ op' \in {"process_block", "reset_peak"})
             => AllFull(meter')]_vars
    /\ [][(\E b \in Rings : meter'[b].len < meter[b].len)
             => op' = "reset_all"]_vars
    /\ []OperationsEnabled

\* C19: every squared weighted sample goes into the momentary and into the
\* short-term window of its channel: the values resident in a momentary
\* buffer are the most recent min(samples since reset, momentary capacity)
\* values resident in the short-term buffer of the same channel.
C19_MomentaryIsTailOfShortTerm ==
    ~panicked =>
        /\ Resident(meter.moment_l)
              = LastN(Resident(meter.short_l), Min(hist.total, MomentaryCap))
        /\ Resident(meter.moment_r)
              = LastN(Resident(meter.short_r), Min(hist.total, MomentaryCap))

\* the momentary window has wrapped, the short-term window holds more than
\* it, and the values are not all the same
C19_Witness ==
    /\ ~panicked
    /\ MomentaryCap > 0
    /\ hist.total > MomentaryCap
    /\ meter.short_l.len > MomentaryCap
    /\ \E i, j \in 1..MomentaryCap : meter.moment_l.buf[i] # meter.moment_l.buf[j]

\* the five coefficients of both stages of a filter
Coefficients(f) ==
    <<f.stage1.b0, f.stage1.b1, f.stage1.b2, f.stage1.a1, f.stage1.a2,
      f.stage2.b0, f.stage2.b1, f.stage2.b2, f.stage2.a1, f.stage2.a2>>

\* what LufsMeter::new fixes: the coefficients of both channels, the capacity
\* of the four ring buffers and the output interval
Configuration(m) ==
    <<Coefficients(m.filter_l), Coefficients(m.filter_r),
      Len(m.moment_l.buf), Len(m.moment_r.buf),
      Len(m.short_l.buf), Len(m.short_r.buf),
      m.output_interval>>

\* C20: process_block, reset_peak and reset_all leave the ten coefficients of
\* each channel, the capacity of the four ring buffers and output_interval as
\* LufsMeter::new set them; reset_all zeroes the cells of the buffers without
\* changing their number.
C20_ConfigurationFixed ==
    [][/\ Configuration(meter') = Configuration(meter)
       /\ Configuration(meter') = Configuration(LufsMeterNew(sample_rate))
       /\ op' = "reset_all"
            => \A b \in Rings : meter'[b].buf = RepeatZero(Len(meter[b].buf))]_vars

\* a reset_all on a meter whose windows have cells and whose interval is not 0
C20_Witness ==
    /\ op = "reset_all"
    /\ MomentaryCap > 0
    /\ meter.output_interval > 0
    /\ Configuration(meter) = Configuration(LufsMeterNew(sample_rate))

\* a ring buffer as RingBuffer::new leaves it: n cells, all 0.0, nothing
\* pushed
EmptyOfCapacity(b, n) ==
    /\ b.buf = [i \in 1..n |-> 0]
    /\ b.head = 0 /\ b.len = 0 /\ b.sum = 0 /\ b.compensation = 0

\* n is x = num / den (den > 0) rounded to the nearest integer, halves away
\* from zero
IsRounded(n, num, den) == 2 * den * n - den <= 2 * num /\ 2 * num < 2 * den * n + den

\* C21: LufsMeter::new(fs) makes momentary buffers of round(fs * 0.4) cells,
\* short-term buffers of round(fs * 3.0) cells and an output interval of
\* round(fs * 0.05) samples (19200 / 144000 / 2400 at 48000 Hz, 17640 /
\* 132300 / 2205 at 44100 Hz); the buffers are empty, the peaks and the sample
\* counter 0 and both cached values -144.0.
C21_Construction ==
    op = "new" =>
        /\ \E n \in 0..sample_rate :
              /\ IsRounded(n, 4 * sample_rate, 10)
              /\ EmptyOfCapacity(meter.moment_l, n)
              /\ EmptyOfCapacity(meter.moment_r, n)
        /\ IsRounded(Len(meter.short_l.buf), 3 * sample_rate, 1)
        /\ EmptyOfCapacity(meter.short_l, Len(meter.short_l.buf))
        /\ EmptyOfCapacity(meter.short_r, Len(meter.short_l.buf))
        /\ IsRounded(meter.output_interval, 5 * sample_rate, 100)
        /\ meter.peak_l = 0 /\ meter.peak_r = 0
        /\ meter.sample_count = 0
        /\ meter.cached_momentary = LUFS_FLOOR
        /\ meter.cached_short_term = LUFS_FLOOR
        /\ sample_rate = 48000
              => /\ Len(meter.moment_l.buf) = 19200
                 /\ Len(meter.short_l.buf) = 144000
                 /\ meter.output_interval = 2400
        /\ sample_rate = 44100
              => /\ Len(meter.moment_l.buf) = 17640
                 /\ Len(meter.short_l.buf) = 132300
                 /\ meter.output_interval = 2205

\* a meter built for 22050 Hz, where fs * 0.05 = 1102.5 is rounded up
C21_Witness ==
    /\ op = "new"
    /\ sample_rate = 22050
    /\ meter.output_interval = 1103
    /\ Len(meter.moment_r.buf) = 8820

\* C22: mean() is 0.0 on an empty buffer, and while fewer values have been
\* pushed than the buffer has cells it is the mean of the values pushed so far
\* (the sum divided by their number, not by the capacity), up to the relative
\* tolerance of mean() and the half grid unit the division may round by.
C22_WarmupMean ==
    ~panicked =>
        /\ Len(pushed) = 0 => Mean(rb) = 0
        /\ (op = "mean" /\ Len(pushed) = 0) => ret = 0
        /\ Len(pushed) < Len(rb.buf)
              => LET k == Len(pushed)
                     S == SumSeq(pushed)
                 IN  /\ rb.len = k
                     /\ Abs(Mean(rb) * k - S) <= k + Abs(S) \div MeanTolerance
                     /\ op = "mean" => ret = Mean(rb)

\* mean() read during warm-up, after values that differ
C22_Witness ==
    /\ op = "mean"
    /\ Len(pushed) = 2 /\ Len(rb.buf) = 3
    /\ pushed[1] = 3 * ONE /\ pushed[2] = ONE
    /\ ret = 2 * ONE

\* output n of the difference equation of the transfer function
\* (b0 + b1 z^-1 + b2 z^-2) / (1 + a1 z^-1 + a2 z^-2) with coefficients q
\* on the input x (a function from positions to samples), in exact arithmetic
RECURSIVE DifferenceEquation(_, _, _)
DifferenceEquation(q, x, n) ==
    IF n < 1 THEN 0
    ELSE LET xn(k) == IF k < 1 THEN 0 ELSE x[k]
         IN  (q.b0 * xn(n) + q.b1 * xn(n - 1) + q.b2 * xn(n - 2)
                - q.a1 * DifferenceEquation(q, x, n - 1)
                - q.a2 * DifferenceEquation(q, x, n - 2)) \div ONE

\* C23: Biquad::process computes y = b0*x + z1, then z1 = b1*x - a1*y + z2
\* (the old z2), then z2 = b2*x - a2*y, returns y and leaves the coefficients
\* alone; KWeightFilter::process hands the output of stage1 to stage2.  The
\* value returned is therefore that of the two difference equations in cascade.
C23_TransposedDirectFormII ==
    /\ [][op' = "process"
            => LET x  == pushed'[Len(pushed')]
                   s1 == meter.filter_l.stage1
                   s2 == meter.filter_l.stage2
                   t1 == meter'.filter_l.stage1
                   t2 == meter'.filter_l.stage2
                   y1 == (s1.b0 * x) \div ONE + s1.z1
                   y2 == (s2.b0 * y1) \div ONE + s2.z1
               IN  /\ ret' = y2
                   /\ t1.z1 = (s1.b1 * x) \div ONE - (s1.a1 * y1) \div ONE + s1.z2
                   /\ t1.z2 = (s1.b2 * x) \div ONE - (s1.a2 * y1) \div ONE
                   /\ t2.z1 = (s2.b1 * y1) \div ONE - (s2.a1 * y2) \div ONE + s2.z2
                   /\ t2.z2 = (s2.b2 * y1) \div ONE - (s2.a2 * y2) \div ONE
                   /\ Coefficients(meter'.filter_l) = Coefficients(meter.filter_l)]_vars
    /\ [](op = "process"
            => LET n  == Len(pushed)
                   w  == [k \in 1..n |->
                            DifferenceEquation(meter.filter_l.stage1, pushed, k)]
               IN  ret = DifferenceEquation(meter.filter_l.stage2, w, n))

\* the third sample through a filter with five different stage-2 coefficients,
\* both delay lines of both stages in use
C23_Witness ==
    /\ op = "process"
    /\ Len(pushed) = 3
    /\ pushed[1] = ONE /\ pushed[3] = -ONE
    /\ meter.filter_l.stage1.z2 # 0 /\ meter.filter_l.stage2.z2 # 0
    /\ meter.filter_l.stage1.z1 # meter.filter_l.stage1.z2
    /\ ret # 0

\* C24: with output_interval > 0 the sample counter is below output_interval
\* between calls: a process_block call that returns either returns false and
\* leaves the counter below the interval, or returns true and leaves it at 0.
C24_CounterBelowInterval ==
    /\ []((~panicked /\ meter.output_interval > 0)
            => meter.sample_count < meter.output_interval)
    /\ [][(op' = "process_block" /\ ~panicked' /\ meter.output_interval > 0)
            => \/ ret' = FALSE /\ meter'.sample_count < meter.output_interval
               \/ ret' = TRUE /\ meter'.sample_count = 0]_vars

\* a call that returned false with the counter at 1 below an interval of 2,
\* after a call that returned true
C24_Witness ==
    /\ op = "process_block" /\ ~panicked /\ ret = FALSE
    /\ meter.output_interval = 2
    /\ meter.sample_count = 1
    /\ hist.trues = 1

\* C25 as stated: a call that returns true leaves the counter at 0, and the
\* samples processed since the true return before it are at least
\* output_interval and fewer than output_interval plus the length of the block
\* of this call.
C25_ExcessDiscarded ==
    [][(op' = "process_block" /\ ~panicked' /\ ret' = TRUE)
          => /\ meter'.sample_count = 0
             /\ hist.trues >= 1
                   => LET n   == hist'.total - hist.total
                          gap == hist.acc + n
                      IN  /\ gap >= meter.output_interval
                          /\ gap < meter.output_interval + n]_vars

\* the state that the chunking is claimed not to affect: the delay lines, the
\* four ring buffers and the peaks
StreamState(m) ==
    <<m.filter_l, m.filter_r, m.moment_l, m.moment_r, m.short_l, m.short_r,
      m.peak_l, m.peak_r>>

\* the meter after the entries i.. of a record s of sample pairs and
\* reset_peak calls, each sample pair taken on its own
RECURSIVE Replay(_, _, _)
Replay(m, s, i) ==
    IF i > Len(s) THEN m
    ELSE Replay(IF Len(s[i]) = 2 THEN ProcessSample(m, s[i][1], s[i][2])
                ELSE ResetPeakMeter(m),
                s, i + 1)

\* the sample pairs among the entries of s
RECURSIVE PairCount(_)
PairCount(s) ==
    IF s = <<>> THEN 0
    ELSE (IF Len(Head(s)) = 2 THEN 1 ELSE 0) + PairCount(Tail(s))

\* C26: the delay lines, the ring buffers and the peaks are those the stream
\* processed since construction or reset_all gives sample by sample, however
\* the stream was cut into calls and wherever the updates fell.  (The counter
\* and the cached values may differ.)
C26_ChunkingIndependent ==
    ~panicked =>
        /\ PairCount(pushed) = hist.total
        /\ StreamState(meter)
              = StreamState(Replay(LufsMeterNew(sample_rate), pushed, 1))

\* three calls whose updates fell on other samples than those of one call on
\* the whole stream
C26_Witness ==
    /\ op = "process_block" /\ ~panicked /\ ret = FALSE
    /\ meter.output_interval = 2
    /\ hist.calls = 3 /\ hist.total = 4 /\ hist.trues = 1
    /\ meter.peak_l = ONE
    /\ meter.filter_l.stage1.z1 # 0

\* C27: in every reachable state each ring buffer has len <= capacity and, if
\* its capacity is not 0, head < capacity with head the number of pushes since
\* construction or reset_all modulo the capacity; the left and the right
\* buffer of a window have the same len and the same head, so the minimum
\* warmup_progress takes over the two momentary fill counters is either one.
C27_RingStructure ==
    ~panicked =>
        /\ \A b \in Rings :
              LET capacity == Len(meter[b].buf)
              IN  /\ meter[b].len <= capacity
                  /\ capacity > 0 => /\ meter[b].head < capacity
                                     /\ meter[b].head = hist.total % capacity
        /\ meter.moment_l.len = meter.moment_r.len
        /\ meter.moment_l.head = meter.moment_r.head
        /\ meter.short_l.len = meter.short_r.len
        /\ meter.short_l.head = meter.short_r.head
        /\ Min(meter.moment_l.len, meter.moment_r.len) = meter.moment_l.len
        /\ Min(meter.moment_l.len, meter.moment_r.len) = meter.moment_r.len

\* the cursor of the short-term buffers has wrapped and stands inside the
\* buffer
C27_Witness ==
    /\ ~panicked
    /\ MomentaryCap > 0
    /\ hist.total > ShortCap
    /\ meter.short_r.head > 0
    /\ meter.short_r.len = ShortCap
    /\ meter.moment_l.head # meter.short_l.head

\* the state and the readings of the left and of the right channel
LeftState(m) == <<m.filter_l, m.moment_l, m.short_l, m.peak_l, PeakDb(m.peak_l)>>

RightState(m) == <<m.filter_r, m.moment_r, m.short_r, m.peak_r, PeakDb(m.peak_r)>>

\* the record s with every right (left) sample replaced by v
WithRight(s, v) ==
    [i \in 1..Len(s) |-> IF Len(s[i]) = 2 THEN <<s[i][1], v>> ELSE s[i]]

WithLeft(s, v) ==
    [i \in 1..Len(s) |-> IF Len(s[i]) = 2 THEN <<v, s[i][2]>> ELSE s[i]]

\* sample values put in the place of the other channel's
OtherSamples == {3 * ONE, NaN}

\* C28: the left-channel state (filter_l, moment_l, short_l, peak_l and
\* peak_l_db) is what the same operations give with any other right-channel
\* samples, and the right-channel state what they give with any other
\* left-channel samples.
C28_ChannelsIndependent ==
    ~panicked =>
        \A v \in OtherSamples :
            /\ LeftState(meter)
                  = LeftState(Replay(LufsMeterNew(sample_rate), WithRight(pushed, v), 1))
            /\ RightState(meter)
                  = RightState(Replay(LufsMeterNew(sample_rate), WithLeft(pushed, v), 1))

\* both channels have processed samples, a reset_peak lies between them, and
\* the cached values have been updated from both
C28_Witness ==
    /\ op = "process_block" /\ ~panicked /\ ret = TRUE
    /\ \E i \in 1..Len(pushed) : Len(pushed[i]) = 1
    /\ meter.peak_l = ONE
    /\ meter.peak_r = ONE \div 2
    /\ meter.moment_l.sum # meter.moment_r.sum
    /\ meter.cached_momentary # LUFS_FLOOR

\* C29 as stated: with blocks delivered for ever and no reset_all,
\* process_block returns true again and again, warmup_progress reaches 1.0,
\* and the four windows become full and stay full.
C29_Progress ==
    /\ []<>(op = "process_block" /\ ret = TRUE)
    /\ <>(WarmupProgress(meter) = ONE)
    /\ <>[]AllFull(meter)

\* C30 as stated: at most one child process of the server is alive at a time
C30_AtMostOneChild == Cardinality(Alive) <= 1

=============================================================================
